---- MODULE Spec2Model ----
(***************************************************************************)
(* Model of the hockey-tracker data layer:                                 *)
(*   - the three statistics aggregators (fetchTeamStats and the two        *)
(*     fetchClubStats implementations),                                    *)
(*   - fetchGamesByClubId (two co-issued queries, dedup/merge, date sort)  *)
(*     and the club fetchClubStats built on it,                            *)
(*   - fetchUpcomingGames / fetchRecentGames.                              *)
(* Each aggregator iterates over the documents of a query snapshot; one    *)
(* iteration of its forEach callback is one step of the model.             *)
(***************************************************************************)
EXTENDS Integers, Sequences, FiniteSets

\* ------------------------------------------------------------------ bounds
MaxGames == 3   \* documents one aggregator call iterates over
MaxScore == 2   \* largest recorded score
MaxDate == 2    \* largest date instant
MaxLimit == 4   \* largest result-count cap passed by a caller
MaxTeamIds == 2 \* longest teamIds array passed by a caller
MaxConcLen == 1 \* longest query result when two calls run at once
MaxClicks == 2  \* tab clicks in the tabbed App
MaxTeamsListed == 1 \* longest teams list a view query answers with
MaxClubs == 1   \* longest clubs list fetchAllClubs returns

\* ------------------------------------------------------------ JS values
\* A score field that is missing from the document (JavaScript undefined).
Absent == -1

\* `x || 0` on a score: undefined (and 0) give 0, a positive number itself.
OrZero(x) == IF x = Absent THEN 0 ELSE x

\* `a > b` / `a < b` on numbers-or-undefined: undefined converts to NaN and
\* every comparison with NaN is false.
JsGt(a, b) == a # Absent /\ b # Absent /\ a > b
JsLt(a, b) == a # Absent /\ b # Absent /\ a < b

\* A JavaScript number that came out of a division, kept exact: num/den.
\* den = 0 stands for NaN (0/0).
Num(n) == [num |-> n, den |-> 1]
JsDiv(a, b) == [num |-> a, den |-> b]
JsMul(r, k) == [num |-> r.num * k, den |-> r.den]
IsNaN(r) == r.den = 0
NumEq(r, s) == ~IsNaN(r) /\ ~IsNaN(s) /\ r.num * s.den = s.num * r.den

\* ------------------------------------------------------------ documents
Teams == {"t1", "t2", "t3"}
Statuses == {"completed", "scheduled"}
Scores == {Absent} \cup (0..MaxScore)
Side == [id : Teams, score : Scores]
\* The fields of a game document the aggregators read.
Game == {g \in [status : Statuses, home_team : Side, away_team : Side] :
            g.home_team.id # g.away_team.id}
\* teams.map(team => team.id): the identifiers of the fetched teams.
TeamIdSets == SUBSET Teams

NoValue == [kind |-> "none"]
ZeroAcc == [wins |-> 0, losses |-> 0, draws |-> 0,
            goalsFor |-> 0, goalsAgainst |-> 0, totalGames |-> 0]

VARIABLES
    aggOp,       \* the aggregator running: "team", "mentone", "club" or "none"
    aggTeams,    \* its team identifiers ({teamId} for fetchTeamStats)
    aggAcc,      \* wins, losses, draws, goalsFor, goalsAgainst, totalGames
    aggStatuses, \* status of each document iterated so far, in order
    aggPc,       \* "idle", "loop", "done"
    aggRet,      \* the returned summary
    aggOurGoals, \* history: sum of our scores over the counted games so far
    aggTheirGoals \* history: sum of their scores over the counted games so far

VARIABLES
    fEntry,    \* the function the caller invoked: "games", "stats" or "none"
    fPc,       \* "idle", "teams" (awaiting fetchTeamsByClubId),
               \* "games" (awaiting Promise.all), "done"
    teamsQ,    \* the teams query: "idle", "pending", "ok", "failed"
    homeQ,     \* the home-games query, likewise
    awayQ,     \* the away-games query, likewise
    clubTeamIds,   \* teams.map(team => team.id) once the teams query answered
    homeSnap,  \* homeGamesSnapshot: the documents the home query returned
    awaySnap,  \* awayGamesSnapshot
    issued,    \* how many times each query was sent to the backend
    fRet       \* what the call returned or threw

aggVars == <<aggOp, aggTeams, aggAcc, aggStatuses, aggPc, aggRet,
             aggOurGoals, aggTheirGoals>>
VARIABLES
    selOp,      \* "upcoming", "recent" or "none"
    selTeamIds, \* the teamIds argument
    selLimit,   \* the limit argument
    selNow,     \* const now = new Date()
    selPc,      \* "idle", "await" (getDocs outstanding), "done"
    selRet      \* what the call returned or threw

fetchVars == <<fEntry, fPc, teamsQ, homeQ, awayQ, clubTeamIds, homeSnap, awaySnap,
               issued, fRet>>
selVars == <<selOp, selTeamIds, selLimit, selNow, selPc, selRet>>
VARIABLES
    cGames,    \* what the backend answers to the home and to the away query
    cPc,       \* per call of fetchGamesByClubId: "idle", "await", "done"
    cQ,        \* per call: state of its home and its away query
    cSnap,     \* per call: homeGamesSnapshot and awayGamesSnapshot
    cArrived,  \* history, per call: the order in which its queries settled
    cRet       \* per call: what it returned or threw

concVars == <<cGames, cPc, cQ, cSnap, cArrived, cRet>>
VARIABLES
    appKind,     \* which App component is mounted: "none", "tabbed" or "club"
    activeTab,   \* tabbed App: useState('Senior')
    tabTeams,    \* tabbed App: teams, useState([])
    tabLoading,  \* tabbed App: loading, useState(true)
    tabFetches,  \* tabbed App: the fetchTeams calls awaiting getDocs, [id, tab]
    tabStarted,  \* history: how many fetchTeams calls have started
    tabShown,    \* history: the call whose answer tabTeams holds (0: none)
    tabAnswered, \* history: the calls whose query was answered
    tabPromise   \* how the last settled fetchTeams() promise ended

VARIABLES
    clubs,        \* club App: useState([])
    allTeams,     \* club App: teams, useState([])
    selectedTeam, \* club App: useState(null)
    selectedClub, \* club App: useState(null)
    viewMode,     \* club App: useState('club')
    appLoading,   \* club App: loading, useState(true)
    loadPc,       \* loadInitialData: "idle", "clubs", "teams" (awaits), "done"
    loadFailed,   \* history: what made loadInitialData fail ("none" if nothing)
    loadPromise   \* how the loadInitialData() promise ended

tabVars == <<activeTab, tabTeams, tabLoading, tabFetches, tabStarted, tabShown,
             tabAnswered, tabPromise>>
clubAppVars == <<clubs, allTeams, selectedTeam, selectedClub, viewMode, appLoading,
                 loadPc, loadFailed, loadPromise>>
viewVars == <<appKind, tabVars, clubAppVars>>
vars == <<aggVars, fetchVars, selVars, concVars, viewVars>>

\* -------------------------------------------------------- fetchTeamStats
\* Result classification shared by fetchTeamStats and the Mentone
\* fetchClubStats: raw scores are compared, `|| 0` is applied to the tally only.
ClassifyRaw(acc, our, their) ==
    LET tally == [acc EXCEPT !.goalsFor = @ + OrZero(our),
                             !.goalsAgainst = @ + OrZero(their)]
    IN  IF JsGt(our, their) THEN [tally EXCEPT !.wins = @ + 1]
        ELSE IF JsLt(our, their) THEN [tally EXCEPT !.losses = @ + 1]
        ELSE [tally EXCEPT !.draws = @ + 1]

\* querySnapshot.forEach callback of fetchTeamStats.
fetchTeamStats_forEach(acc, game, teamId) ==
    LET isHomeTeam == game.home_team.id = teamId
        teamScore == IF isHomeTeam THEN game.home_team.score ELSE game.away_team.score
        opponentScore == IF isHomeTeam THEN game.away_team.score ELSE game.home_team.score
    IN  ClassifyRaw(acc, teamScore, opponentScore)

\* Mutant of WinPercentage: the division without its n > 0 guard.
WinPercentage_unguarded(wins, n) == JsMul(JsDiv(wins, n), 100)

\* win_percentage: n > 0 ? (wins / n) * 100 : 0
WinPercentage(wins, n) == IF n > 0 THEN JsMul(JsDiv(wins, n), 100) ELSE Num(0)

\* Mutant of GoalDifference: the operands swapped.
GoalDifference_swapped(goalsFor, goalsAgainst) == goalsAgainst - goalsFor

\* goal_difference: goalsFor - goalsAgainst
GoalDifference(goalsFor, goalsAgainst) == goalsFor - goalsAgainst

\* The summary fetchTeamStats returns; size is querySnapshot.size.
fetchTeamStats_return(acc, size) ==
    [games_played |-> size,
     wins |-> acc.wins,
     losses |-> acc.losses,
     draws |-> acc.draws,
     points |-> (acc.wins * 3) + acc.draws,
     goals_for |-> acc.goalsFor,
     goals_against |-> acc.goalsAgainst,
     goal_difference |-> GoalDifference(acc.goalsFor, acc.goalsAgainst),
     win_percentage |-> WinPercentage(acc.wins, size)]

\* ------------------------------------------- fetchClubStats (all teams)
\* gamesSnapshot.forEach callback of the firestoreService fetchClubStats.
fetchClubStatsMentone_forEach(acc, game, teamIds) ==
    LET isHomeTeam == game.home_team.id \in teamIds
        isAwayTeam == game.away_team.id \in teamIds
        mentoneScore == IF isHomeTeam THEN game.home_team.score ELSE game.away_team.score
        opponentScore == IF isHomeTeam THEN game.away_team.score ELSE game.home_team.score
    IN  IF isHomeTeam \/ isAwayTeam
        THEN ClassifyRaw([acc EXCEPT !.totalGames = @ + 1], mentoneScore, opponentScore)
        ELSE acc

fetchClubStatsMentone_return(acc, teamIds) ==
    [teams_count |-> Cardinality(teamIds),
     total_games |-> acc.totalGames,
     wins |-> acc.wins,
     losses |-> acc.losses,
     draws |-> acc.draws,
     win_percentage |-> WinPercentage(acc.wins, acc.totalGames),
     goals_for |-> acc.goalsFor,
     goals_against |-> acc.goalsAgainst,
     goal_difference |-> GoalDifference(acc.goalsFor, acc.goalsAgainst)]

\* ---------------------------------------------- fetchClubStats (by club)
\* Classification after `|| 0` has been applied to both scores.
ClassifyDefaulted(acc, our, their) ==
    LET tally == [acc EXCEPT !.goalsFor = @ + our, !.goalsAgainst = @ + their]
    IN  IF our > their THEN [tally EXCEPT !.wins = @ + 1]
        ELSE IF our < their THEN [tally EXCEPT !.losses = @ + 1]
        ELSE [tally EXCEPT !.draws = @ + 1]

\* Mutant of fetchClubStats_forEach: the status check left out.
fetchClubStats_forEach_anyStatus(acc, game, teamIds) ==
    LET isHomeTeam == game.home_team.id \in teamIds
        isAwayTeam == game.away_team.id \in teamIds
        homeScore == OrZero(game.home_team.score)
        awayScore == OrZero(game.away_team.score)
    IN  IF isHomeTeam THEN ClassifyDefaulted(acc, homeScore, awayScore)
        ELSE IF isAwayTeam THEN ClassifyDefaulted(acc, awayScore, homeScore)
        ELSE acc

\* games.forEach callback of the club fetchClubStats.
fetchClubStats_forEach(acc, game, teamIds) ==
    LET isHomeTeam == game.home_team.id \in teamIds
        isAwayTeam == game.away_team.id \in teamIds
        homeScore == OrZero(game.home_team.score)
        awayScore == OrZero(game.away_team.score)
    IN  IF game.status # "completed" THEN acc
        ELSE IF isHomeTeam THEN ClassifyDefaulted(acc, homeScore, awayScore)
        ELSE IF isAwayTeam THEN ClassifyDefaulted(acc, awayScore, homeScore)
        ELSE acc

\* games.filter(game => game.status === s).length, on the statuses of games.
CountStatus(statuses, s) == Len(SelectSeq(statuses, LAMBDA x : x = s))

fetchClubStats_return(acc, teamIds, statuses) ==
    LET completedGames == CountStatus(statuses, "completed")
    IN  [team_count |-> Cardinality(teamIds),
         games_played |-> completedGames,
         wins |-> acc.wins,
         losses |-> acc.losses,
         draws |-> acc.draws,
         goals_for |-> acc.goalsFor,
         goals_against |-> acc.goalsAgainst,
         goal_difference |-> GoalDifference(acc.goalsFor, acc.goalsAgainst),
         win_percentage |-> WinPercentage(acc.wins, completedGames),
         upcoming_games |-> CountStatus(statuses, "scheduled")]

\* ------------------------------------------------- aggregator processes
AggOps == {"team", "mentone", "club"}

\* The where() clauses of the query each aggregator iterates over:
\* fetchTeamStats and the Mentone fetchClubStats ask for status == completed;
\* the club fetchClubStats iterates over fetchGamesByClubId's list, any status.
\* (The team_ref / club_id filters do not constrain the fields read here.)
QueryAdmits(op, game) == op \in {"team", "mentone"} => game.status = "completed"

AggStep(op, acc, game, teamIds) ==
    IF op = "team"
    THEN fetchTeamStats_forEach(acc, game, CHOOSE t \in teamIds : TRUE)
    ELSE IF op = "mentone" THEN fetchClubStatsMentone_forEach(acc, game, teamIds)
    ELSE fetchClubStats_forEach(acc, game, teamIds)

AggReturn(op, acc, teamIds, statuses) ==
    IF op = "team" THEN fetchTeamStats_return(acc, Len(statuses))
    ELSE IF op = "mentone" THEN fetchClubStatsMentone_return(acc, teamIds)
    ELSE fetchClubStats_return(acc, teamIds, statuses)

\* Whether the aggregator's team set contains neither side of the game.
NoSideMatches(game, teamIds) ==
    game.home_team.id \notin teamIds /\ game.away_team.id \notin teamIds

\* Whether the aggregator counts the game, and the scores it takes as ours/theirs.
Counted(op, game, teamIds) ==
    IF op = "team" THEN TRUE
    ELSE /\ ~NoSideMatches(game, teamIds)
         /\ op = "club" => game.status = "completed"
OurScore(game, teamIds) ==
    OrZero(IF game.home_team.id \in teamIds
           THEN game.home_team.score ELSE game.away_team.score)
TheirScore(game, teamIds) ==
    OrZero(IF game.home_team.id \in teamIds
           THEN game.away_team.score ELSE game.home_team.score)

AggInit ==
    /\ aggOp = "none"
    /\ aggTeams = {}
    /\ aggAcc = ZeroAcc
    /\ aggStatuses = <<>>
    /\ aggPc = "idle"
    /\ aggRet = NoValue
    /\ aggOurGoals = 0
    /\ aggTheirGoals = 0

\* An aggregator is called; its counters start at 0.
AggCall(op, ids) ==
    /\ aggPc = "idle"
    /\ op = "team" => Cardinality(ids) = 1
    /\ aggOp' = op
    /\ aggTeams' = ids
    /\ aggAcc' = ZeroAcc
    /\ aggStatuses' = <<>>
    /\ aggPc' = "loop"
    /\ aggRet' = NoValue
    /\ UNCHANGED <<aggOurGoals, aggTheirGoals>>
    /\ UNCHANGED <<fetchVars, selVars, concVars, viewVars>>

\* One iteration of the forEach over the snapshot / game list.
AggLoop(game) ==
    /\ aggPc = "loop"
    /\ Len(aggStatuses) < MaxGames
    /\ QueryAdmits(aggOp, game)
    /\ aggAcc' = AggStep(aggOp, aggAcc, game, aggTeams)
    /\ aggStatuses' = Append(aggStatuses, game.status)
    /\ LET c == Counted(aggOp, game, aggTeams)
       IN  /\ aggOurGoals' = aggOurGoals + (IF c THEN OurScore(game, aggTeams) ELSE 0)
           /\ aggTheirGoals' = aggTheirGoals + (IF c THEN TheirScore(game, aggTeams) ELSE 0)
    /\ UNCHANGED <<aggOp, aggTeams, aggPc, aggRet>>
    /\ UNCHANGED <<fetchVars, selVars, concVars, viewVars>>

\* The loop is over: the summary is built and returned.
AggFinish ==
    /\ aggPc = "loop"
    /\ aggRet' = AggReturn(aggOp, aggAcc, aggTeams, aggStatuses)
    /\ aggPc' = "done"
    /\ UNCHANGED <<aggOp, aggTeams, aggAcc, aggStatuses, aggOurGoals, aggTheirGoals>>
    /\ UNCHANGED <<fetchVars, selVars, concVars, viewVars>>

AggNext ==
    \/ \E op \in AggOps, ids \in TeamIdSets : AggCall(op, ids)
    \/ \E game \in Game : AggLoop(game)
    \/ AggFinish

\* ------------------------------------------------ aggregator properties
\* The completed-game count a summary reports (total_games in the Mentone one).
GamesPlayed(op, s) == IF op = "mentone" THEN s.total_games ELSE s.games_played

\* The summary the running aggregator would return if its list ended here.
SummaryNow == AggReturn(aggOp, aggAcc, aggTeams, aggStatuses)

\* Field-by-field equality on the fields every summary has.
SameSummary(op, a, b) ==
    /\ GamesPlayed(op, a) = GamesPlayed(op, b)
    /\ a.wins = b.wins
    /\ a.losses = b.losses
    /\ a.draws = b.draws
    /\ a.goals_for = b.goals_for
    /\ a.goals_against = b.goals_against
    /\ a.goal_difference = b.goal_difference
    /\ NumEq(a.win_percentage, b.win_percentage)

\* The game with every absent score recorded as 0.
ZeroAbsent(game) ==
    [game EXCEPT !.home_team.score = OrZero(@), !.away_team.score = OrZero(@)]

\* C1: in the summary every aggregator returns, wins + losses + draws equals
\* the reported completed-game count (games_played / total_games).
C1_ResultsAddUp ==
    aggPc = "done" =>
        aggRet.wins + aggRet.losses + aggRet.draws = GamesPlayed(aggOp, aggRet)

\* C1, restricted to fetchTeamStats and the Mentone fetchClubStats.
C1_ResultsAddUp_TeamAndMentone == aggOp \in {"team", "mentone"} => C1_ResultsAddUp

\* C2: iterating over one more completed game neither of whose sides is in the
\* team set leaves every field of the summary as it was.
C2_UnmatchedGameSkipped ==
    [][\A game \in Game :
          (/\ aggPc = "loop"
           /\ game.status = "completed"
           /\ NoSideMatches(game, aggTeams)
           /\ AggLoop(game))
              => SameSummary(aggOp, SummaryNow', SummaryNow)]_vars

\* C2, restricted to the Mentone fetchClubStats.
C2_UnmatchedGameSkipped_Mentone ==
    [][\A game \in Game :
          (/\ aggPc = "loop" /\ aggOp = "mentone"
           /\ NoSideMatches(game, aggTeams)
           /\ AggLoop(game))
              => SameSummary(aggOp, SummaryNow', SummaryNow)]_vars

\* C3: every aggregator treats an absent score as 0, in the goal tally and in
\* the win/loss/draw classification: a game is counted exactly as the same
\* game with its absent scores recorded as 0.
C3_AbsentScoreIsZero ==
    [][\A game \in Game :
          (aggPc = "loop" /\ ZeroAbsent(game) # game /\ AggLoop(game))
              => aggAcc' = AggStep(aggOp, aggAcc, ZeroAbsent(game), aggTeams)]_vars

\* C3, restricted to the club fetchClubStats.
C3_AbsentScoreIsZero_Club ==
    [][\A game \in Game :
          (aggPc = "loop" /\ aggOp = "club" /\ ZeroAbsent(game) # game /\ AggLoop(game))
              => aggAcc' = AggStep(aggOp, aggAcc, ZeroAbsent(game), aggTeams)]_vars

C8_WitnessNoCompleted ==
    /\ aggPc = "done" /\ aggOp = "club"
    /\ Len(aggStatuses) > 0
    /\ aggRet.games_played = 0

\* C9: every returned summary has goal_difference = goals_for - goals_against,
\* goals_for and goals_against being the sums of our and their scores over the
\* counted games (kept in aggOurGoals and aggTheirGoals).
C9_GoalDifference ==
    aggPc = "done" =>
        /\ aggRet.goal_difference = aggRet.goals_for - aggRet.goals_against
        /\ aggRet.goals_for = aggOurGoals
        /\ aggRet.goals_against = aggTheirGoals

\* A summary with more goals against than for.
C9_Witness ==
    /\ aggPc = "done"
    /\ aggRet.goals_for = 1
    /\ aggRet.goals_against = 3
    /\ aggRet.goal_difference = -2

\* C10: in the club aggregator a game whose status is not completed changes no
\* field of the summary.
C10_ScheduledGameIgnored ==
    [][(/\ aggPc = "loop" /\ aggOp = "club"
        /\ Len(aggStatuses') = Len(aggStatuses) + 1
        /\ aggStatuses'[Len(aggStatuses')] # "completed")
          => SameSummary(aggOp, SummaryNow', SummaryNow)]_vars

\* Two completed games and a scheduled one: the summary counts two.
C10_Witness ==
    /\ aggPc = "done" /\ aggOp = "club"
    /\ aggStatuses = <<"completed", "scheduled", "completed">>
    /\ aggRet.games_played = 2
    /\ aggRet.wins = 1 /\ aggRet.draws = 1
    /\ aggRet.upcoming_games = 1

\* The result a game has for the side whose scores are our / their.
ResultOf(our, their) ==
    IF our > their THEN "wins" ELSE IF our < their THEN "losses" ELSE "draws"

\* The tally after one more result r.
TallyPlus(acc, r) ==
    [wins |-> acc.wins + (IF r = "wins" THEN 1 ELSE 0),
     losses |-> acc.losses + (IF r = "losses" THEN 1 ELSE 0),
     draws |-> acc.draws + (IF r = "draws" THEN 1 ELSE 0)]

TallyOf(acc) == [wins |-> acc.wins, losses |-> acc.losses, draws |-> acc.draws]

\* C11: in both club aggregators every completed game with a side in the team
\* set adds exactly one result: our score is the home score when the home team
\* is in the set and the away score otherwise, and the result is a win, loss
\* or draw as our score is greater than, less than or equal to theirs; a game
\* with both sides in the set is counted once, from the home side.
C11_SideAndClassification ==
    [][\A game \in Game :
          (/\ aggPc = "loop" /\ aggOp \in {"club", "mentone"}
           /\ game.status = "completed" /\ ~NoSideMatches(game, aggTeams)
           /\ AggLoop(game))
              => TallyOf(aggAcc') =
                     TallyPlus(aggAcc, ResultOf(OurScore(game, aggTeams),
                                                TheirScore(game, aggTeams)))]_vars

\* C11, restricted to the club fetchClubStats of fetchGamesByClubId's list.
C11_SideAndClassification_Club ==
    [][\A game \in Game :
          (/\ aggPc = "loop" /\ aggOp = "club"
           /\ game.status = "completed" /\ ~NoSideMatches(game, aggTeams)
           /\ AggLoop(game))
              => TallyOf(aggAcc') =
                     TallyPlus(aggAcc, ResultOf(OurScore(game, aggTeams),
                                                TheirScore(game, aggTeams)))]_vars

\* C11, restricted to games of the Mentone fetchClubStats with both scores stored.
C11_SideAndClassification_ScoresStored ==
    [][\A game \in Game :
          (/\ aggPc = "loop" /\ aggOp = "mentone"
           /\ ZeroAbsent(game) = game /\ ~NoSideMatches(game, aggTeams)
           /\ AggLoop(game))
              => TallyOf(aggAcc') =
                     TallyPlus(aggAcc, ResultOf(OurScore(game, aggTeams),
                                                TheirScore(game, aggTeams)))]_vars

\* ---------------------------------------------------- fetchGamesByClubId
GameIds == {1, 2, 3}

\* A stored date: a Firestore Timestamp or a raw epoch number.
RawDates == [kind : {"timestamp", "number"}, ms : 1..MaxDate]

\* How each game document stores its date.
DateKind(id) == IF id = 3 THEN "number" ELSE "timestamp"

\* The remaining fields of each game document.
DocData(id) ==
    IF id = 1 THEN [status |-> "completed",
                    home_team |-> [id |-> "t1", score |-> 2],
                    away_team |-> [id |-> "t3", score |-> 1]]
    ELSE IF id = 2 THEN [status |-> "completed",
                         home_team |-> [id |-> "t3", score |-> 1],
                         away_team |-> [id |-> "t2", score |-> Absent]]
    ELSE [status |-> "scheduled",
          home_team |-> [id |-> "t2", score |-> Absent],
          away_team |-> [id |-> "t1", score |-> Absent]]

\* A document of a games snapshot: doc.id and the date field of doc.data().
Docs == {d \in [id : GameIds, date : RawDates] : d.date.kind = DateKind(d.id)}

\* Firestore's order of date values: numbers sort below timestamps.
DateRank(d) == IF d.kind = "timestamp" THEN MaxDate + d.ms ELSE d.ms

\* orderBy('date', 'desc'): no document precedes one with a greater date.
OrderedDesc(snap) ==
    \A i, j \in 1..Len(snap) : i < j => DateRank(snap[i].date) >= DateRank(snap[j].date)

DistinctIds(snap) ==
    \A i, j \in 1..Len(snap) : i # j => snap[i].id # snap[j].id

\* What a games query ordered by date descending can return.
Snapshots ==
    {snap \in UNION {[1..n -> Docs] : n \in 0..Cardinality(GameIds)} :
        DistinctIds(snap) /\ OrderedDesc(snap)}

\* data.date instanceof Timestamp ? data.date.toDate() : new Date(data.date)
NormalizeDate(raw) == raw.ms

\* snapshot.forEach(doc => games.push({id: doc.id, ...data, date: gameDate}))
ProcessSnapshot(snap) ==
    [i \in 1..Len(snap) |->
        [id |-> snap[i].id,
         date |-> NormalizeDate(snap[i].date),
         status |-> DocData(snap[i].id).status,
         home_team |-> DocData(snap[i].id).home_team,
         away_team |-> DocData(snap[i].id).away_team]]

\* allGames.some(game => game.id === awayGame.id)
SomeId(games, id) == \E i \in 1..Len(games) : games[i].id = id

\* Mutant of MergeGames: the away games appended without the duplicate check.
MergeGames_noDedup(homeGames, awayGames) == homeGames \o awayGames

\* const allGames = [...homeGames]; awayGames.forEach(push unless already in)
RECURSIVE MergeGames(_, _)
MergeGames(homeGames, awayGames) ==
    IF awayGames = <<>> THEN homeGames
    ELSE IF SomeId(homeGames, Head(awayGames).id)
         THEN MergeGames(homeGames, Tail(awayGames))
         ELSE MergeGames(Append(homeGames, Head(awayGames)), Tail(awayGames))

\* The comparator (a, b) => b.date - a.date.
CompareDates(a, b) == b.date - a.date

\* Mutant of InsertByDate: the element goes before the elements of equal date.
RECURSIVE InsertByDate_unstable(_, _)
InsertByDate_unstable(sorted, x) ==
    IF sorted = <<>> THEN <<x>>
    ELSE IF CompareDates(Head(sorted), x) < 0
         THEN <<Head(sorted)>> \o InsertByDate_unstable(Tail(sorted), x)
         ELSE <<x>> \o sorted

\* Array.prototype.sort is stable: x goes after every element that does not
\* compare greater than it.
RECURSIVE InsertByDate(_, _)
InsertByDate(sorted, x) ==
    IF sorted = <<>> THEN <<x>>
    ELSE IF CompareDates(Head(sorted), x) <= 0
         THEN <<Head(sorted)>> \o InsertByDate(Tail(sorted), x)
         ELSE <<x>> \o sorted

\* allGames.sort((a, b) => b.date - a.date)
RECURSIVE SortByDate(_)
SortByDate(games) ==
    IF games = <<>> THEN <<>>
    ELSE InsertByDate(SortByDate(SubSeq(games, 1, Len(games) - 1)), games[Len(games)])

\* The list fetchGamesByClubId returns from its two snapshots.
fetchGamesByClubId_return(homeSnapshot, awaySnapshot) ==
    SortByDate(MergeGames(ProcessSnapshot(homeSnapshot), ProcessSnapshot(awaySnapshot)))

\* games.forEach(...) of the club fetchClubStats over a whole list.
RECURSIVE ForEachGame(_, _, _)
ForEachGame(acc, games, ids) ==
    IF games = <<>> THEN acc
    ELSE ForEachGame(fetchClubStats_forEach(acc, Head(games), ids), Tail(games), ids)

\* The summary the club fetchClubStats returns from its teams and games.
fetchClubStats_summary(ids, games) ==
    fetchClubStats_return(ForEachGame(ZeroAcc, games, ids), ids,
                          [i \in 1..Len(games) |-> games[i].status])

\* Mutant of Catch: the error is logged and an empty result returned.
Catch_swallowed(error) == [kind |-> "ok", value |-> <<>>]

\* catch (error) { console.error(...); throw error; }
Catch(error) == [kind |-> "error", error |-> error]

FetchInit ==
    /\ fEntry = "none"
    /\ fPc = "idle"
    /\ teamsQ = "idle" /\ homeQ = "idle" /\ awayQ = "idle"
    /\ clubTeamIds = {}
    /\ homeSnap = <<>> /\ awaySnap = <<>>
    /\ issued = [teams |-> 0, home |-> 0, away |-> 0]
    /\ fRet = NoValue

\* fetchGamesByClubId up to its await: both queries go out together.
IssueGameQueries ==
    /\ homeQ' = "pending"
    /\ awayQ' = "pending"
    /\ issued' = [issued EXCEPT !.home = @ + 1, !.away = @ + 1]
    /\ fPc' = "games"

\* A caller invokes fetchGamesByClubId(clubId).
CallFetchGames ==
    /\ fPc = "idle"
    /\ fEntry' = "games"
    /\ IssueGameQueries
    /\ UNCHANGED <<teamsQ, clubTeamIds, homeSnap, awaySnap, fRet>>
    /\ UNCHANGED <<aggVars, selVars, concVars, viewVars>>

\* A caller invokes fetchClubStats(clubId): fetchTeamsByClubId goes first.
CallFetchClubStats ==
    /\ fPc = "idle"
    /\ fEntry' = "stats"
    /\ teamsQ' = "pending"
    /\ issued' = [issued EXCEPT !.teams = @ + 1]
    /\ fPc' = "teams"
    /\ UNCHANGED <<homeQ, awayQ, clubTeamIds, homeSnap, awaySnap, fRet>>
    /\ UNCHANGED <<aggVars, selVars, concVars, viewVars>>

\* The teams query answers: fetchClubStats goes on to fetchGamesByClubId.
TeamsRespond(ids) ==
    /\ teamsQ = "pending"
    /\ teamsQ' = "ok"
    /\ clubTeamIds' = ids
    /\ IssueGameQueries
    /\ UNCHANGED <<fEntry, homeSnap, awaySnap, fRet>>
    /\ UNCHANGED <<aggVars, selVars, concVars, viewVars>>

\* The teams query fails: fetchTeamsByClubId rethrows, and so does fetchClubStats.
TeamsFail ==
    /\ teamsQ = "pending"
    /\ teamsQ' = "failed"
    /\ fRet' = Catch("teams")
    /\ fPc' = "done"
    /\ UNCHANGED <<fEntry, homeQ, awayQ, clubTeamIds, homeSnap, awaySnap, issued>>
    /\ UNCHANGED <<aggVars, selVars, concVars, viewVars>>

\* Promise.all resolved: the rest of fetchGamesByClubId runs, and for
\* fetchClubStats the aggregation after it.
Resume(homeSnapshot, awaySnapshot) ==
    LET games == fetchGamesByClubId_return(homeSnapshot, awaySnapshot)
    IN  /\ fRet' = [kind |-> "ok",
                    value |-> IF fEntry = "games" THEN games
                              ELSE fetchClubStats_summary(clubTeamIds, games)]
        /\ fPc' = "done"

\* The home query answers. Promise.all resolves if the away query has
\* answered too; after a rejection the snapshot is dropped.
HomeRespond(snap) ==
    /\ homeQ = "pending"
    /\ homeQ' = "ok"
    /\ IF fPc = "games"
       THEN /\ homeSnap' = snap
            /\ IF awayQ = "ok" THEN Resume(snap, awaySnap)
                               ELSE UNCHANGED <<fPc, fRet>>
       ELSE UNCHANGED <<homeSnap, fPc, fRet>>
    /\ UNCHANGED <<fEntry, teamsQ, awayQ, clubTeamIds, awaySnap, issued>>
    /\ UNCHANGED <<aggVars, selVars, concVars, viewVars>>

AwayRespond(snap) ==
    /\ awayQ = "pending"
    /\ awayQ' = "ok"
    /\ IF fPc = "games"
       THEN /\ awaySnap' = snap
            /\ IF homeQ = "ok" THEN Resume(homeSnap, snap)
                               ELSE UNCHANGED <<fPc, fRet>>
       ELSE UNCHANGED <<awaySnap, fPc, fRet>>
    /\ UNCHANGED <<fEntry, teamsQ, homeQ, clubTeamIds, homeSnap, issued>>
    /\ UNCHANGED <<aggVars, selVars, concVars, viewVars>>

\* A games query fails: Promise.all rejects at the first failure and the
\* catch blocks rethrow; a later failure finds the call already over.
HomeFail ==
    /\ homeQ = "pending"
    /\ homeQ' = "failed"
    /\ IF fPc = "games"
       THEN fRet' = Catch("home") /\ fPc' = "done"
       ELSE UNCHANGED <<fPc, fRet>>
    /\ UNCHANGED <<fEntry, teamsQ, awayQ, clubTeamIds, homeSnap, awaySnap, issued>>
    /\ UNCHANGED <<aggVars, selVars, concVars, viewVars>>

AwayFail ==
    /\ awayQ = "pending"
    /\ awayQ' = "failed"
    /\ IF fPc = "games"
       THEN fRet' = Catch("away") /\ fPc' = "done"
       ELSE UNCHANGED <<fPc, fRet>>
    /\ UNCHANGED <<fEntry, teamsQ, homeQ, clubTeamIds, homeSnap, awaySnap, issued>>
    /\ UNCHANGED <<aggVars, selVars, concVars, viewVars>>

FetchNext ==
    \/ CallFetchGames
    \/ CallFetchClubStats
    \/ \E ids \in TeamIdSets : TeamsRespond(ids)
    \/ TeamsFail
    \/ homeQ = "pending" /\ \E snap \in Snapshots : HomeRespond(snap)
    \/ awayQ = "pending" /\ \E snap \in Snapshots : AwayRespond(snap)
    \/ HomeFail
    \/ AwayFail

\* ------------------------------------------------------ fetch properties
HomeGames == ProcessSnapshot(homeSnap)
AwayGames == ProcessSnapshot(awaySnap)
IdsOf(games) == {games[i].id : i \in 1..Len(games)}
SharedIds == IdsOf(HomeGames) \cap IdsOf(AwayGames)
PosOf(games, id) == CHOOSE k \in 1..Len(games) : games[k].id = id
GamesReturned == fEntry = "games" /\ fRet.kind = "ok"

\* C4: the list fetchGamesByClubId returns has length |A| + |B| - k for home
\* result A and away result B sharing k identifiers, holds every identifier of
\* A and of B exactly once, and for a shared identifier holds A's record.
C4_DedupMerge ==
    GamesReturned =>
        LET R == fRet.value
        IN  /\ Len(R) = Len(HomeGames) + Len(AwayGames) - Cardinality(SharedIds)
            /\ IdsOf(R) = IdsOf(HomeGames) \cup IdsOf(AwayGames)
            /\ DistinctIds(R)
            /\ \A i \in 1..Len(R) :
                  IF R[i].id \in IdsOf(HomeGames)
                  THEN R[i] = HomeGames[PosOf(HomeGames, R[i].id)]
                  ELSE R[i] = AwayGames[PosOf(AwayGames, R[i].id)]

\* Two home and two away games share one identifier, under different dates.
C4_Witness ==
    /\ GamesReturned
    /\ Len(HomeGames) = 2 /\ Len(AwayGames) = 2
    /\ \E id \in SharedIds :
          HomeGames[PosOf(HomeGames, id)].date # AwayGames[PosOf(AwayGames, id)].date
    /\ Len(fRet.value) = 3

\* Whether the game with identifier x was inserted before the one with y:
\* home games first, each query's games in the order the query returned them.
InsertedBefore(x, y) ==
    IF x \in IdsOf(HomeGames) /\ y \in IdsOf(HomeGames)
    THEN PosOf(HomeGames, x) < PosOf(HomeGames, y)
    ELSE IF x \in IdsOf(HomeGames) THEN TRUE
    ELSE IF y \in IdsOf(HomeGames) THEN FALSE
    ELSE PosOf(AwayGames, x) < PosOf(AwayGames, y)

\* C5: the list fetchGamesByClubId returns is sorted non-increasing by date, and
\* games of equal date keep their insertion order (home games before away
\* games, each group in its original relative order).
C5_SortedStable ==
    GamesReturned =>
        LET R == fRet.value
        IN  \A i, j \in 1..Len(R) :
                i < j => /\ R[i].date >= R[j].date
                         /\ R[i].date = R[j].date => InsertedBefore(R[i].id, R[j].id)

\* The sort had to move a game, and a home and an away game share a date.
C5_Witness ==
    /\ GamesReturned
    /\ Len(fRet.value) = 3
    /\ fRet.value # MergeGames(HomeGames, AwayGames)
    /\ \E i, j \in 1..Len(fRet.value) :
          /\ i < j
          /\ fRet.value[i].date = fRet.value[j].date
          /\ fRet.value[i].id \in IdsOf(HomeGames)
          /\ fRet.value[j].id \notin IdsOf(HomeGames)

\* C7: a failed query fails the operation and nothing is returned: once any
\* of the teams, home-games or away-games queries has failed the call is over
\* with the error rethrown; a returned value means every query of the call
\* answered; no query is sent twice, and after a failed teams fetch no games
\* query is sent at all.
C7_FailurePropagates ==
    /\ (teamsQ = "failed" \/ homeQ = "failed" \/ awayQ = "failed")
          => fPc = "done" /\ fRet.kind = "error"
    /\ fRet.kind = "ok"
          => /\ homeQ = "ok" /\ awayQ = "ok"
             /\ fEntry = "stats" => teamsQ = "ok"
    /\ issued.teams <= 1 /\ issued.home <= 1 /\ issued.away <= 1
    /\ teamsQ = "failed" => issued.home = 0 /\ issued.away = 0

\* fetchClubStats: the home query answered, then the away query failed.
C7_Witness ==
    /\ fEntry = "stats"
    /\ teamsQ = "ok" /\ homeQ = "ok" /\ awayQ = "failed"
    /\ Len(homeSnap) > 0
    /\ fPc = "done" /\ fRet.kind = "error"

\* ------------------------------- concurrent calls of fetchGamesByClubId
\* Two calls in progress at once, each with its own locals.
Calls == {"a", "b"}
Sides == {"home", "away"}
OtherSide(side) == IF side = "home" THEN "away" ELSE "home"

\* What a games query holds here: an ordered snapshot of bounded length.
ConcSnapshots ==
    {snap \in UNION {[1..n -> Docs] : n \in 0..MaxConcLen} :
        DistinctIds(snap) /\ OrderedDesc(snap)}

\* Mutant of PromiseAll: the fulfilment values in order of arrival.
PromiseAll_arrivalOrder(homeSnapshot, awaySnapshot, arrived) ==
    IF arrived[1] = "home" THEN <<homeSnapshot, awaySnapshot>>
    ELSE <<awaySnapshot, homeSnapshot>>

\* await Promise.all([getDocs(homeGamesQuery), getDocs(awayGamesQuery)]):
\* the fulfilment values in the order of the argument array.
PromiseAll(homeSnapshot, awaySnapshot, arrived) == <<homeSnapshot, awaySnapshot>>

ConcInit ==
    /\ cGames = NoValue
    /\ cPc = [c \in Calls |-> "idle"]
    /\ cQ = [c \in Calls |-> [side \in Sides |-> "idle"]]
    /\ cSnap = [c \in Calls |-> [side \in Sides |-> <<>>]]
    /\ cArrived = [c \in Calls |-> <<>>]
    /\ cRet = [c \in Calls |-> NoValue]

\* Call c starts: both queries are built and sent before the await. Both
\* calls ask for the same club, whose games the backend holds unchanged.
ConcCall(c, homeSnapshot, awaySnapshot) ==
    /\ cPc[c] = "idle"
    /\ cGames' = [kind |-> "ok", home |-> homeSnapshot, away |-> awaySnapshot]
    /\ cGames.kind = "ok" => cGames' = cGames
    /\ cPc' = [cPc EXCEPT ![c] = "await"]
    /\ cQ' = [cQ EXCEPT ![c] = [side \in Sides |-> "pending"]]
    /\ UNCHANGED <<cSnap, cArrived, cRet>>
    /\ UNCHANGED <<aggVars, fetchVars, selVars, viewVars>>

\* A query of call c answers; when the other one has answered too, Promise.all
\* fulfils and the rest of the call runs to its return.
ConcRespond(c, side) ==
    /\ cQ[c][side] = "pending"
    /\ UNCHANGED cGames
    /\ cQ' = [cQ EXCEPT ![c][side] = "ok"]
    /\ cArrived' = [cArrived EXCEPT ![c] = Append(@, side)]
    /\ IF cPc[c] = "await"
       THEN /\ cSnap' = [cSnap EXCEPT ![c][side] = cGames[side]]
            /\ IF cQ[c][OtherSide(side)] = "ok"
               THEN LET values == PromiseAll(cSnap'[c]["home"], cSnap'[c]["away"],
                                             cArrived'[c])
                    IN  /\ cRet' = [cRet EXCEPT ![c] =
                               [kind |-> "ok",
                                value |-> fetchGamesByClubId_return(values[1], values[2])]]
                        /\ cPc' = [cPc EXCEPT ![c] = "done"]
               ELSE UNCHANGED <<cPc, cRet>>
       ELSE UNCHANGED <<cSnap, cPc, cRet>>
    /\ UNCHANGED <<aggVars, fetchVars, selVars, viewVars>>

\* A query of call c fails: Promise.all rejects at once and the catch rethrows.
ConcFail(c, side) ==
    /\ cQ[c][side] = "pending"
    /\ cQ' = [cQ EXCEPT ![c][side] = "failed"]
    /\ cArrived' = [cArrived EXCEPT ![c] = Append(@, side)]
    /\ IF cPc[c] = "await"
       THEN /\ cRet' = [cRet EXCEPT ![c] = Catch(side)]
            /\ cPc' = [cPc EXCEPT ![c] = "done"]
       ELSE UNCHANGED <<cPc, cRet>>
    /\ UNCHANGED <<cGames, cSnap>>
    /\ UNCHANGED <<aggVars, fetchVars, selVars, viewVars>>

ConcNext ==
    \/ \E c \in Calls :
          /\ cPc[c] = "idle" /\ cGames.kind = "none"
          /\ \E homeSnapshot, awaySnapshot \in ConcSnapshots :
                 ConcCall(c, homeSnapshot, awaySnapshot)
    \/ \E c \in Calls :
          /\ cPc[c] = "idle" /\ cGames.kind = "ok"
          /\ ConcCall(c, cGames.home, cGames.away)
    \/ \E c \in Calls, side \in Sides : ConcRespond(c, side)
    \/ \E c \in Calls, side \in Sides : ConcFail(c, side)

\* C12: the two queries of a call are sent together and awaited jointly, and
\* the list a call returns is determined by its own two query results alone:
\* not by the order in which they arrived, nor by the other call in progress.
C12_OrderIndependent ==
    \A c \in Calls :
        /\ cQ[c]["home"] = "idle" <=> cQ[c]["away"] = "idle"
        /\ cPc[c] = "await" => \A side \in Sides : cQ[c][side] \in {"pending", "ok"}
        /\ cPc[c] = "await" => \E side \in Sides : cQ[c][side] = "pending"
        /\ (cPc[c] = "done" /\ cRet[c].kind = "ok") =>
              /\ \A side \in Sides : cQ[c][side] = "ok"
              /\ cSnap[c]["home"] = cGames["home"] /\ cSnap[c]["away"] = cGames["away"]
              /\ cRet[c].value =
                     fetchGamesByClubId_return(cGames["home"], cGames["away"])

\* Call a returned with its away result first, while call b, started before
\* a returned, has one answer; a's results would merge differently if swapped.
C12_Witness ==
    /\ cPc["a"] = "done" /\ cRet["a"].kind = "ok"
    /\ cArrived["a"] = <<"away", "home">>
    /\ fetchGamesByClubId_return(cSnap["a"]["away"], cSnap["a"]["home"])
           # fetchGamesByClubId_return(cSnap["a"]["home"], cSnap["a"]["away"])
    /\ cPc["b"] = "await" /\ cArrived["b"] = <<"home">>

\* ------------------------------------ fetchUpcomingGames / fetchRecentGames
\* JavaScript values an identifier can be bound to in these functions.
NumberValue(n) == [type |-> "number", val |-> n]
ImportedLimit == [type |-> "function", val |-> 0]

\* The binding of the identifier `limit` inside
\* async (teamIds = null, limit = 10) => {...}: the parameter shadows the
\* function imported from firebase/firestore.
LimitInScope(limitArg) == NumberValue(limitArg)

\* The teamIds argument: null, or an array of team identifiers.
NullIds == [given |-> FALSE, ids |-> <<>>]
TeamIdArgs ==
    {NullIds} \cup
    {[given |-> TRUE, ids |-> a] :
        a \in {a \in UNION {[1..n -> Teams] : n \in 0..MaxTeamIds} :
                  \A i, j \in 1..Len(a) : i # j => a[i] # a[j]}}

\* teamIds && teamIds.length > 0
Scoped(arg) == arg.given /\ Len(arg.ids) > 0

\* The query constraints the function builds; evaluating limit(limit) calls
\* whatever `limit` is bound to, which throws a TypeError unless it is a function.
BuildQuery(op, arg, now, limitArg) ==
    LET callee == LimitInScope(limitArg)
    IN  IF callee.type = "function"
        THEN [threw |-> FALSE,
              teamRefs |-> IF Scoped(arg) THEN arg.ids ELSE <<>>,
              scoped |-> Scoped(arg),
              filter |-> IF op = "upcoming" THEN "date>=now" ELSE "status==completed",
              order |-> IF op = "upcoming" THEN "asc" ELSE "desc",
              now |-> now,
              limit |-> limitArg]
        ELSE [threw |-> TRUE]

SelInit ==
    /\ selOp = "none"
    /\ selTeamIds = NullIds
    /\ selLimit = 0
    /\ selNow = 0
    /\ selPc = "idle"
    /\ selRet = NoValue

\* fetchUpcomingGames(teamIds, limit) / fetchRecentGames(teamIds, limit) from
\* the call to the first await, or to the catch block if building the query throws.
SelCall(op, arg, limitArg, now) ==
    /\ selPc = "idle"
    /\ selOp' = op
    /\ selTeamIds' = arg
    /\ selLimit' = limitArg
    /\ selNow' = now
    /\ LET q == BuildQuery(op, arg, now, limitArg)
       IN  IF q.threw
           THEN selRet' = Catch("TypeError") /\ selPc' = "done"
           ELSE selRet' = NoValue /\ selPc' = "await"
    /\ UNCHANGED <<aggVars, fetchVars, concVars, viewVars>>

fetchUpcomingGames(arg, limitArg, now) == SelCall("upcoming", arg, limitArg, now)
fetchRecentGames(arg, limitArg, now) == SelCall("recent", arg, limitArg, now)

SelNext ==
    \/ \E arg \in TeamIdArgs, n \in 0..MaxLimit, now \in 1..MaxDate :
          fetchUpcomingGames(arg, n, now)
    \/ \E arg \in TeamIdArgs, n \in 0..MaxLimit, now \in 1..MaxDate :
          fetchRecentGames(arg, n, now)

\* C6: fetchUpcomingGames and fetchRecentGames, given a numeric cap n, return a
\* list of at most n games: upcoming ones dated now or later in ascending date
\* order, recent ones completed in descending date order.
C6_SelectorsReturnCappedList ==
    selPc = "done" =>
        /\ selRet.kind = "ok"
        /\ Len(selRet.value) <= selLimit
        /\ \A i \in 1..Len(selRet.value) :
              IF selOp = "upcoming" THEN selRet.value[i].date >= selNow
              ELSE selRet.value[i].status = "completed"
        /\ \A i, j \in 1..Len(selRet.value) :
              i < j => IF selOp = "upcoming"
                       THEN selRet.value[i].date <= selRet.value[j].date
                       ELSE selRet.value[i].date >= selRet.value[j].date

\* ------------------------------------------------------ view layer (App)
\* JavaScript null.
Null == [kind |-> "null"]

\* Team documents a teams query can hold, and the lists it can answer with.
TeamDocs == [id : Teams]
TeamLists ==
    {list \in UNION {[1..n -> TeamDocs] : n \in 0..MaxTeamsListed} :
        \A i, j \in 1..Len(list) : i # j => list[i].id # list[j].id}

\* Mutant of CatchInView: the error is thrown on after being logged.
CatchInView_rethrow(error) == "rejected"

\* catch (error) { console.error(...) } of both App components: the error
\* is logged and the async function completes normally.
CatchInView(error) == "fulfilled"

\* ---------------------------------------------------------- tabbed App
\* const tabs = ['Senior', 'Junior', 'Midweek/Masters']
tabs == {"Senior", "Junior", "Midweek/Masters"}

\* What where('type', '==', tab) can answer: teams of that type.
TabResults(tab) ==
    {[i \in 1..Len(list) |-> [id |-> list[i].id, type |-> tab]] : list \in TeamLists}

\* fetchTeams up to its await, for the tab the effect closed over.
fetchTeams(tab) ==
    /\ tabLoading' = TRUE
    /\ tabStarted' = tabStarted + 1
    /\ tabFetches' = tabFetches \cup {[id |-> tabStarted + 1, tab |-> tab]}

\* The tabbed App mounts: the effect runs fetchTeams for the initial tab.
MountTabbed ==
    /\ appKind = "none"
    /\ appKind' = "tabbed"
    /\ fetchTeams(activeTab)
    /\ UNCHANGED <<activeTab, tabTeams, tabShown, tabAnswered, tabPromise>>
    /\ UNCHANGED clubAppVars
    /\ UNCHANGED <<aggVars, fetchVars, selVars, concVars>>

\* onClick={() => setActiveTab(tab)}: a changed activeTab re-runs the effect,
\* which has no cleanup; fetches still in flight stay in flight.
TabClick(tab) ==
    /\ appKind = "tabbed"
    /\ tab # activeTab
    /\ tabStarted <= MaxClicks
    /\ activeTab' = tab
    /\ fetchTeams(tab)
    /\ UNCHANGED <<appKind, tabTeams, tabShown, tabAnswered, tabPromise>>
    /\ UNCHANGED clubAppVars
    /\ UNCHANGED <<aggVars, fetchVars, selVars, concVars>>

\* getDocs of call f fulfils: setTeams(teamsData); finally setLoading(false).
FetchTeamsRespond(f, teamsData) ==
    /\ f \in tabFetches
    /\ tabFetches' = tabFetches \ {f}
    /\ tabTeams' = teamsData
    /\ tabLoading' = FALSE
    /\ tabShown' = f.id
    /\ tabAnswered' = tabAnswered \cup {f.id}
    /\ tabPromise' = "fulfilled"
    /\ UNCHANGED <<appKind, activeTab, tabStarted>>
    /\ UNCHANGED clubAppVars
    /\ UNCHANGED <<aggVars, fetchVars, selVars, concVars>>

\* getDocs of call f rejects: the catch logs; finally setLoading(false).
FetchTeamsFail(f) ==
    /\ f \in tabFetches
    /\ tabFetches' = tabFetches \ {f}
    /\ tabLoading' = FALSE
    /\ tabPromise' = CatchInView("getDocs")
    /\ UNCHANGED <<appKind, activeTab, tabTeams, tabStarted, tabShown, tabAnswered>>
    /\ UNCHANGED clubAppVars
    /\ UNCHANGED <<aggVars, fetchVars, selVars, concVars>>

TabInit ==
    /\ activeTab = "Senior"
    /\ tabTeams = <<>>
    /\ tabLoading = TRUE
    /\ tabFetches = {}
    /\ tabStarted = 0
    /\ tabShown = 0
    /\ tabAnswered = {}
    /\ tabPromise = "none"

\* C13: in the tabbed App, once no fetch is in flight the teams shown are the
\* answer to the query for the active tab (the latest fetch, if it was
\* answered), and loading is true while a fetch for the active tab is in flight.
C13_TeamsMatchActiveTab ==
    appKind = "tabbed" =>
        /\ (tabFetches = {} /\ tabStarted \in tabAnswered) =>
              /\ tabShown = tabStarted
              /\ \A i \in 1..Len(tabTeams) : tabTeams[i].type = activeTab
        /\ (\E f \in tabFetches : f.tab = activeTab) => tabLoading

\* C13, first half only, and with no query failing: a late answer for an
\* earlier tab is never what is shown once every fetch has been answered.
C13_NoStaleTeams ==
    (appKind = "tabbed" /\ tabFetches = {} /\ tabAnswered = 1..tabStarted) =>
        tabShown = tabStarted

\* ------------------------------------------------------------ club App
ClubIds == {"c1", "c2"}

\* A club document: is_home_club, and whether name holds 'Mentone', holds
\* something else, or is missing.
ClubDocs == [id : ClubIds, is_home_club : BOOLEAN, name : {"Mentone", "other", "undefined"}]

\* What fetchAllClubs can return.
ClubLists ==
    {list \in UNION {[1..n -> ClubDocs] : n \in 0..MaxClubs} :
        \A i, j \in 1..Len(list) : i # j => list[i].id # list[j].id}

\* The first index of a list satisfying a condition, given as an index set.
FirstOf(indices) == CHOOSE i \in indices : \A j \in indices : i <= j

\* clubsData.find(club => club.is_home_club) ||
\* clubsData.find(club => club.name.includes('Mentone')) ||
\* (clubsData.length > 0 ? clubsData[0] : null);
\* name.includes throws a TypeError on the first club without a name that the
\* second find reaches.
homeClub(clubsData) ==
    LET home == {i \in 1..Len(clubsData) : clubsData[i].is_home_club}
        named == {i \in 1..Len(clubsData) : clubsData[i].name = "Mentone"}
        unnamed == {i \in 1..Len(clubsData) : clubsData[i].name = "undefined"}
    IN  IF home # {} THEN [kind |-> "ok", value |-> clubsData[FirstOf(home)]]
        ELSE IF unnamed # {} /\ (named = {} \/ FirstOf(unnamed) < FirstOf(named))
             THEN [kind |-> "error", error |-> "TypeError"]
        ELSE IF named # {} THEN [kind |-> "ok", value |-> clubsData[FirstOf(named)]]
        ELSE IF Len(clubsData) > 0 THEN [kind |-> "ok", value |-> clubsData[1]]
        ELSE [kind |-> "ok", value |-> Null]

ClubAppInit ==
    /\ clubs = <<>>
    /\ allTeams = <<>>
    /\ selectedTeam = Null
    /\ selectedClub = Null
    /\ viewMode = "club"
    /\ appLoading = TRUE
    /\ loadPc = "idle"
    /\ loadFailed = "none"
    /\ loadPromise = "none"

\* The club App mounts: the effect runs loadInitialData up to fetchAllClubs.
MountClub ==
    /\ appKind = "none"
    /\ appKind' = "club"
    /\ appLoading' = TRUE
    /\ loadPc' = "clubs"
    /\ loadPromise' = "pending"
    /\ UNCHANGED <<clubs, allTeams, selectedTeam, selectedClub, viewMode, loadFailed>>
    /\ UNCHANGED tabVars
    /\ UNCHANGED <<aggVars, fetchVars, selVars, concVars>>

\* catch and finally of loadInitialData.
LoadFailed(cause) ==
    /\ loadFailed' = cause
    /\ loadPromise' = CatchInView(cause)
    /\ appLoading' = FALSE
    /\ loadPc' = "done"

\* fetchAllClubs returns: setClubs, the home club is chosen and selected,
\* and fetchAllTeams is called.
AllClubsRespond(clubsData) ==
    /\ loadPc = "clubs"
    /\ clubs' = clubsData
    /\ LET found == homeClub(clubsData)
       IN  IF found.kind = "error"
           THEN LoadFailed("homeClub") /\ UNCHANGED selectedClub
           ELSE /\ selectedClub' = IF found.value # Null THEN found.value ELSE selectedClub
                /\ loadPc' = "teams"
                /\ UNCHANGED <<appLoading, loadFailed, loadPromise>>
    /\ UNCHANGED <<appKind, allTeams, selectedTeam, viewMode>>
    /\ UNCHANGED tabVars
    /\ UNCHANGED <<aggVars, fetchVars, selVars, concVars>>

\* fetchAllClubs rethrows its query's failure.
AllClubsFail ==
    /\ loadPc = "clubs"
    /\ LoadFailed("fetchAllClubs")
    /\ UNCHANGED <<appKind, clubs, allTeams, selectedTeam, selectedClub, viewMode>>
    /\ UNCHANGED tabVars
    /\ UNCHANGED <<aggVars, fetchVars, selVars, concVars>>

\* fetchAllTeams returns: setTeams; finally setLoading(false).
AllTeamsRespond(teamsData) ==
    /\ loadPc = "teams"
    /\ allTeams' = teamsData
    /\ appLoading' = FALSE
    /\ loadPromise' = "fulfilled"
    /\ loadPc' = "done"
    /\ UNCHANGED <<appKind, clubs, selectedTeam, selectedClub, viewMode, loadFailed>>
    /\ UNCHANGED tabVars
    /\ UNCHANGED <<aggVars, fetchVars, selVars, concVars>>

\* fetchAllTeams rethrows its query's failure.
AllTeamsFail ==
    /\ loadPc = "teams"
    /\ LoadFailed("fetchAllTeams")
    /\ UNCHANGED <<appKind, clubs, allTeams, selectedTeam, selectedClub, viewMode>>
    /\ UNCHANGED tabVars
    /\ UNCHANGED <<aggVars, fetchVars, selVars, concVars>>

\* The 'Change Club' button of the navigation bar, rendered at all times.
handleShowClubSelector ==
    /\ appKind = "club"
    /\ viewMode' = "clubSelector"
    /\ UNCHANGED <<appKind, clubs, allTeams, selectedTeam, selectedClub, appLoading,
                   loadPc, loadFailed, loadPromise>>
    /\ UNCHANGED tabVars
    /\ UNCHANGED <<aggVars, fetchVars, selVars, concVars>>

\* The clubs a user picks in ClubSelector: one per identifier.
SelectableClubs == {club \in ClubDocs : ~club.is_home_club /\ club.name = "other"}

\* ClubSelector, rendered once loading is over, reports the club picked.
handleClubSelect(club) ==
    /\ appKind = "club" /\ ~appLoading /\ viewMode = "clubSelector"
    /\ selectedClub' = club
    /\ viewMode' = "club"
    /\ UNCHANGED <<appKind, clubs, allTeams, selectedTeam, appLoading,
                   loadPc, loadFailed, loadPromise>>
    /\ UNCHANGED tabVars
    /\ UNCHANGED <<aggVars, fetchVars, selVars, concVars>>

\* A dashboard, rendered once loading is over, reports the team picked.
handleTeamSelect(team) ==
    /\ appKind = "club" /\ ~appLoading
    /\ viewMode = "club" \/ (viewMode = "team" /\ selectedTeam = Null)
    /\ selectedTeam' = team
    /\ viewMode' = "team"
    /\ UNCHANGED <<appKind, clubs, allTeams, selectedClub, appLoading,
                   loadPc, loadFailed, loadPromise>>
    /\ UNCHANGED tabVars
    /\ UNCHANGED <<aggVars, fetchVars, selVars, concVars>>

\* TeamDetail's back button.
handleBackToDashboard ==
    /\ appKind = "club" /\ ~appLoading
    /\ viewMode = "team" /\ selectedTeam # Null
    /\ selectedTeam' = Null
    /\ viewMode' = "club"
    /\ UNCHANGED <<appKind, clubs, allTeams, selectedClub, appLoading,
                   loadPc, loadFailed, loadPromise>>
    /\ UNCHANGED tabVars
    /\ UNCHANGED <<aggVars, fetchVars, selVars, concVars>>

ViewInit == appKind = "none" /\ TabInit /\ ClubAppInit

\* A pending fetchTeams query settles one way or the other.
SettleFetchTeams(f) ==
    \/ \E teamsData \in TabResults(f.tab) : FetchTeamsRespond(f, teamsData)
    \/ FetchTeamsFail(f)

\* The pending query of loadInitialData settles one way or the other.
SettleLoad ==
    \/ loadPc = "clubs" /\ \E clubsData \in ClubLists : AllClubsRespond(clubsData)
    \/ AllClubsFail
    \/ loadPc = "teams" /\ \E teamsData \in TeamLists : AllTeamsRespond(teamsData)
    \/ AllTeamsFail

ViewNext ==
    \/ MountTabbed
    \/ \E tab \in tabs : TabClick(tab)
    \/ \E f \in tabFetches : \E teamsData \in TabResults(f.tab) : FetchTeamsRespond(f, teamsData)
    \/ \E f \in tabFetches : FetchTeamsFail(f)
    \/ MountClub
    \/ loadPc = "clubs" /\ \E clubsData \in ClubLists : AllClubsRespond(clubsData)
    \/ AllClubsFail
    \/ loadPc = "teams" /\ \E teamsData \in TeamLists : AllTeamsRespond(teamsData)
    \/ AllTeamsFail
    \/ handleShowClubSelector
    \/ \E club \in SelectableClubs : handleClubSelect(club)
    \/ \E team \in TeamDocs : handleTeamSelect(team)
    \/ handleBackToDashboard

\* Whether the id-th fetchTeams call is awaiting its query.
InFlight(id) == \E f \in tabFetches : f.id = id

\* Some pending query of the mounted App settles.
Settle == SettleLoad \/ \E f \in tabFetches : SettleFetchTeams(f)

\* The backend settles a pending query (getDocs fulfils or rejects), and the
\* event loop then runs the continuation of the awaiting function.
ViewFairness == WF_vars(Settle)

\* C14: every load the view layer starts ends with loading false, whether its
\* queries are answered or fail: loadInitialData of the club App and every
\* fetchTeams of the tabbed App; no failure leaves the async function as a
\* rejection; and after a failure the state not yet fetched is at its default:
\* teams is empty when fetchAllTeams failed, and clubs, teams and selectedClub
\* are all at their defaults when fetchAllClubs failed.
C14_LoadingEventuallyDone ==
    /\ (loadPc \in {"clubs", "teams"}) ~> (loadPc = "done" /\ ~appLoading)
    /\ \A id \in 1..(MaxClicks + 1) : InFlight(id) ~> (~InFlight(id) /\ ~tabLoading)
    /\ [](loadPromise # "rejected" /\ tabPromise # "rejected")
    /\ [](loadFailed = "fetchAllTeams" => allTeams = <<>>)
    /\ [](loadFailed = "fetchAllClubs" => (clubs = <<>> /\ allTeams = <<>>))
    /\ [][(loadPc # "done" /\ loadPc' = "done") =>
             /\ ~appLoading'
             /\ loadFailed' = "fetchAllClubs" => selectedClub' = Null]_vars
    /\ [][(tabFetches' # tabFetches /\ tabFetches' \subseteq tabFetches) => ~tabLoading']_vars

\* loadInitialData failed at fetchAllTeams after clubs were stored and a home
\* club selected: loading is over, teams empty, the promise fulfilled.
C14_Witness ==
    /\ appKind = "club" /\ loadPc = "done" /\ loadFailed = "fetchAllTeams"
    /\ ~appLoading /\ loadPromise = "fulfilled"
    /\ Len(clubs) > 0 /\ selectedClub # Null
    /\ allTeams = <<>>

Init == AggInit /\ FetchInit /\ SelInit /\ ConcInit /\ ViewInit
Next == AggNext \/ FetchNext \/ SelNext \/ ConcNext \/ ViewNext
Spec == Init /\ [][Next]_vars
SpecAgg == Init /\ [][AggNext]_vars
SpecFetch == Init /\ [][FetchNext]_vars
SpecSel == Init /\ [][SelNext]_vars
SpecConc == Init /\ [][ConcNext]_vars
SpecView == Init /\ [][ViewNext]_vars
SpecViewFair == SpecView /\ ViewFairness
====
